---- MODULE Spec2Model ----
(***************************************************************************)
(* A model of playlist_extractor.py: the three functions of the script     *)
(* (sanitize_filename, get_track_property, extract_playlists_from_library) *)
(* and the filesystem and console they act on.                             *)
(*                                                                         *)
(* Text.  A Python str is a sequence of atoms.  An atom is one character   *)
(* (the TLA+ string of length one; tab is "\t", newline is "\n"), except   *)
(* that each column title of header_map and the ".txt" suffix is kept as   *)
(* one atom: none of them holds a tab, a newline or a character that any   *)
(* operation of the script looks for.                                      *)
(*                                                                         *)
(* Values.  A Python value is a record tagged with its type in field t.    *)
(* A dict is a function whose DOMAIN is the set of its keys.               *)
(***************************************************************************)
EXTENDS Integers, Sequences, FiniteSets, TLC

VARIABLES
    \* ---- extract_playlists_from_library: environment ----
    xml,             \* what is at xml_path: missing, undecodable, or a plist
    dirExists,       \* whether output_dir exists
    files,           \* output_dir's files: file name -> text
    console,         \* what print() has written, in order
    \* ---- extract_playlists_from_library: locals ----
    pc,              \* position in the function
    tracks,          \* library.get('Tracks', {})
    playlists,       \* library.get('Playlists', [])
    i,               \* index of the playlist the for loop is at (1-based)
    j,               \* index of the item the inner for loop is at (1-based)
    f,               \* name of the file open for writing, <<>> when none
    playlist_count,
    library,         \* what plistlib.load returned
    before,          \* the filesystem when the run started
    \* ---- get_track_property called on its own ----
    gpc, track_data, key, result,
    \* ---- sanitize_filename called on its own ----
    spc, name, sanitized, again

mainVars ==
    <<xml, dirExists, files, console, pc, tracks, playlists, i, j, f, playlist_count,
      library, before>>
fieldVars == <<gpc, track_data, key, result>>
sanVars == <<spc, name, sanitized, again>>
vars == <<mainVars, fieldVars, sanVars>>

----------------------------------------------------------------------------
(* Bounds of the inputs. *)

\* the longest 'Playlists' list of an input library
MaxPlaylists == 2
\* the most segments a Location string is put together from
MaxSegments == 3
\* the longest playlist name given to sanitize_filename on its own
MaxNameLen == 3

----------------------------------------------------------------------------
(* Python values. *)

PyNone == [t |-> "none"]
PyStr(s) == [t |-> "str", v |-> s]
PyInt(n) == [t |-> "int", v |-> n]
PyBool(b) == [t |-> "bool", v |-> b]
\* a datetime.datetime; d is [day, month, year, hour, minute]
PyDate(d) == [t |-> "date", v |-> d]
\* a float, bytes, list or dict stored in a track: r is what str() gives for it
PyOther(r) == [t |-> "other", v |-> r]

EmptyDict == [k \in {} |-> PyNone]

\* dict.get(k, default)
Get(d, k, default) == IF k \in DOMAIN d THEN d[k] ELSE default

\* Python truthiness: `not x` is ~Truthy(x)
Truthy(x) ==
    CASE x.t = "none" -> FALSE
      [] x.t = "str" -> Len(x.v) > 0
      [] x.t = "int" -> x.v # 0
      [] x.t = "bool" -> x.v
      [] x.t = "list" -> Len(x.v) > 0
      [] x.t = "dict" -> DOMAIN x.v # {}
      [] OTHER -> TRUE

\* isinstance(x, int): bool is a subclass of int
IsInstanceInt(x) == x.t \in {"int", "bool"}

\* the integer an int (or bool) stands for in arithmetic
IntOf(x) == IF x.t = "bool" THEN (IF x.v THEN 1 ELSE 0) ELSE x.v

----------------------------------------------------------------------------
(* Text helpers. *)

Digits == <<"0", "1", "2", "3", "4", "5", "6", "7", "8", "9">>

RECURSIVE NatToStr(_)
NatToStr(n) ==
    IF n < 10 THEN <<Digits[n + 1]>>
    ELSE NatToStr(n \div 10) \o <<Digits[(n % 10) + 1]>>

\* str(n) of an int
IntToStr(n) == IF n < 0 THEN <<"-">> \o NatToStr(-n) ELSE NatToStr(n)

\* str(x)
Str(x) ==
    CASE x.t = "str" -> x.v
      [] x.t = "int" -> IntToStr(x.v)
      [] x.t = "bool" -> IF x.v THEN <<"T", "r", "u", "e">> ELSE <<"F", "a", "l", "s", "e">>
      [] x.t = "none" -> <<"N", "o", "n", "e">>
      [] OTHER -> x.v

\* strftime's %d, %m, %H, %M: two digits, zero-padded
Pad2(n) == IF n < 10 THEN <<"0">> \o NatToStr(n) ELSE NatToStr(n)

\* value.strftime('%d/%m/%Y, %H:%M')
Strftime(d) ==
    Pad2(d.day) \o <<"/">> \o Pad2(d.month) \o <<"/">> \o NatToStr(d.year)
        \o <<",", " ">> \o Pad2(d.hour) \o <<":">> \o Pad2(d.minute)

\* s.startswith(p)
StartsWith(s, p) == Len(s) >= Len(p) /\ SubSeq(s, 1, Len(p)) = p

\* s.replace(old, ''): every occurrence of old, found left to right, is
\* removed; what a removal brings together is not rescanned
RECURSIVE Remove(_, _)
Remove(s, old) ==
    IF s = <<>> THEN <<>>
    ELSE IF StartsWith(s, old) THEN Remove(SubSeq(s, Len(old) + 1, Len(s)), old)
    ELSE <<Head(s)>> \o Remove(Tail(s), old)

\* sep.join(parts)
RECURSIVE Join(_, _)
Join(sep, parts) ==
    IF parts = <<>> THEN <<>>
    ELSE IF Len(parts) = 1 THEN parts[1]
    ELSE parts[1] \o sep \o Join(sep, Tail(parts))

----------------------------------------------------------------------------
(* urllib.parse.unquote *)

\* the printable ASCII characters, code 32 to 95
AsciiLow ==
    <<" ", "!", "\"", "#", "$", "%", "&", "'", "(", ")", "*", "+", ",", "-", ".", "/",
      "0", "1", "2", "3", "4", "5", "6", "7", "8", "9", ":", ";", "<", "=", ">", "?",
      "@", "A", "B", "C", "D", "E", "F", "G", "H", "I", "J", "K", "L", "M", "N", "O",
      "P", "Q", "R", "S", "T", "U", "V", "W", "X", "Y", "Z", "[", "\\", "]", "^", "_">>

\* the printable ASCII characters, code 97 to 126
AsciiHigh ==
    <<"a", "b", "c", "d", "e", "f", "g", "h", "i", "j", "k", "l", "m", "n", "o",
      "p", "q", "r", "s", "t", "u", "v", "w", "x", "y", "z", "{", "|", "}", "~">>

HexDigits ==
    <<"0", "1", "2", "3", "4", "5", "6", "7", "8", "9", "a", "b", "c", "d", "e", "f">>

HexUpper == <<"A", "B", "C", "D", "E", "F">>

IsHex(c) ==
    \/ \E n \in 1..Len(HexDigits) : HexDigits[n] = c
    \/ \E n \in 1..Len(HexUpper) : HexUpper[n] = c

HexVal(c) ==
    IF \E n \in 1..Len(HexUpper) : HexUpper[n] = c
    THEN 9 + (CHOOSE n \in 1..Len(HexUpper) : HexUpper[n] = c)
    ELSE (CHOOSE n \in 1..Len(HexDigits) : HexDigits[n] = c) - 1

\* The character a decoded byte b stands for.  A byte from 0x80 up that is
\* not part of a well-formed UTF-8 sequence decodes to U+FFFD
\* (errors='replace'); the Location strings drawn below hold no well-formed
\* multi-byte sequence.  A character that has no TLA+ string of its own
\* (a control character, the grave accent) is named by its code.
Chr(b) ==
    IF b >= 32 /\ b <= 95 THEN AsciiLow[b - 31]
    ELSE IF b >= 97 /\ b <= 126 THEN AsciiHigh[b - 96]
    ELSE IF b = 9 THEN "\t"
    ELSE IF b = 10 THEN "\n"
    ELSE IF b < 128 THEN "\\x" \o ToString(b)
    ELSE "\\ufffd"

\* unquote(s): each %XY with X, Y hexadecimal digits becomes the character
\* of that byte; a % not followed by two hexadecimal digits stays
RECURSIVE Unquote(_)
Unquote(s) ==
    IF s = <<>> THEN <<>>
    ELSE IF s[1] = "%" /\ Len(s) >= 3 /\ IsHex(s[2]) /\ IsHex(s[3])
    THEN <<Chr(16 * HexVal(s[2]) + HexVal(s[3]))>> \o Unquote(SubSeq(s, 4, Len(s)))
    ELSE <<Head(s)>> \o Unquote(Tail(s))

----------------------------------------------------------------------------
(* sanitize_filename *)

\* the character class of the regular expression: \ / * ? : " < > |
InvalidChars == {"\\", "/", "*", "?", ":", "\"", "<", ">", "|"}

\* a substitution that stops after the first match (count=1)
RECURSIVE ReSubFirst(_)
ReSubFirst(s) ==
    IF s = <<>> THEN <<>>
    ELSE IF Head(s) \in InvalidChars THEN Tail(s)
    ELSE <<Head(s)>> \o ReSubFirst(Tail(s))

RECURSIVE ReSubInvalid(_)
ReSubInvalid(s) ==
    IF s = <<>> THEN <<>>
    ELSE IF Head(s) \in InvalidChars THEN ReSubInvalid(Tail(s))
    ELSE <<Head(s)>> \o ReSubInvalid(Tail(s))

sanitize_filename(n) == ReSubInvalid(n)

----------------------------------------------------------------------------
(* get_track_property *)

FileScheme == <<"f", "i", "l", "e", ":", "/", "/">>
UsersPrefix == <<"/", "U", "s", "e", "r", "s", "/">>
MacintoshHD == <<"M", "a", "c", "i", "n", "t", "o", "s", "h", " ", "H", "D">>

\* round(value / 1000) for value // 1000
TotalTimeSeconds_rounded(value) == (value + 500) \div 1000

\* value // 1000
TotalTimeSeconds(value) == value \div 1000

\* unquote(value).replace('file://', '')
LocationPath(value) == Remove(Unquote(value), FileScheme)

\* the Location branch, given the str stored under the key
LocationCell(value) ==
    LET path == LocationPath(value)
    IN  IF StartsWith(path, UsersPrefix) THEN MacintoshHD \o path ELSE path

\* the last line: str(value) if value is not None else ''
FallThrough(value) == IF value.t # "none" THEN PyStr(Str(value)) ELSE PyStr(<<>>)

\* the function with no last line: a Location that is no str, and every
\* value no branch takes, falls off the end and None is returned
get_track_property_implicit(td, k) ==
    LET value == Get(td, k, PyStr(<<>>))
    IN  IF k = "Total Time" /\ IsInstanceInt(value)
        THEN PyStr(IntToStr(TotalTimeSeconds(IntOf(value))))
        ELSE IF value.t = "date"
        THEN PyStr(Strftime(value.v))
        ELSE IF k = "Location"
        THEN (IF value.t = "str" THEN PyStr(LocationCell(value.v)) ELSE PyNone)
        ELSE FallThrough(value)

\* get_track_property(track_data, key) with default=''; what it returns, as
\* a Python value
get_track_property(td, k) ==
    LET value == Get(td, k, PyStr(<<>>))
    IN  IF k = "Total Time" /\ IsInstanceInt(value)
        THEN PyStr(IntToStr(TotalTimeSeconds(IntOf(value))))
        ELSE IF value.t = "date"
        THEN PyStr(Strftime(value.v))
        ELSE IF k = "Location" /\ value.t = "str"
        THEN PyStr(LocationCell(value.v))
        ELSE FallThrough(value)

----------------------------------------------------------------------------
(* header_map *)

header ==
    <<"Name", "Artist", "Composer", "Album", "Grouping", "Work",
      "Movement Number", "Movement Count", "Movement Name", "Genre", "Size",
      "Time", "Disc Number", "Disc Count", "Track Number", "Track Count",
      "Year", "Date Modified", "Date Added", "Bit Rate", "Sample Rate",
      "Volume Adjustment", "Kind", "Equaliser", "Comments", "Plays",
      "Last Played", "Skips", "Last Skipped", "My Rating", "Location">>

xml_keys ==
    <<"Name", "Artist", "Composer", "Album", "Grouping", "Work",
      "Movement Number", "Movement Count", "Movement Name", "Genre", "Size",
      "Total Time", "Disc Number", "Disc Count", "Track Number", "Track Count",
      "Year", "Date Modified", "Date Added", "Bit Rate", "Sample Rate",
      "Volume Adjustment", "Kind", "Equalizer", "Comments", "Play Count",
      "Play Date UTC", "Skip Count", "Skip Date", "Rating", "Location">>

----------------------------------------------------------------------------
(* The inputs of a run of extract_playlists_from_library. *)

TrackFull ==
    "Name" :> PyStr(<<"S">>) @@ "Total Time" :> PyInt(185000)
        @@ "Date Added" :> PyDate([day |-> 5, month |-> 11, year |-> 2019, hour |-> 9, minute |-> 30])
        @@ "Location" :> PyStr(FileScheme \o UsersPrefix \o <<"a">>)

TrackPlain == "Name" :> PyStr(<<"T">>) @@ "Year" :> PyInt(1999)

\* a title with a tab in it
TrackTab == "Name" :> PyStr(<<"a", "\t", "b">>)

\* an artist with a newline in it
TrackNewline == "Artist" :> PyStr(<<"x", "\n", "y">>)

\* the 'Tracks' dicts drawn: track id (a str) -> track record
Catalogs ==
    { EmptyDict,
      <<"1">> :> TrackFull @@ <<"2">> :> TrackPlain,
      <<"1">> :> TrackPlain @@ <<"2">> :> EmptyDict,
      <<"1">> :> TrackTab @@ <<"2">> :> TrackNewline }

Item(n) == "Track ID" :> PyInt(n)

ItemLists ==
    { <<Item(1)>>, <<Item(2), Item(1)>>, <<Item(3), EmptyDict>> }

NameA == <<"A">>
NameASlash == <<"A", "/">>
NameB == <<"B">>

PlaylistOf(n, items) == "Name" :> PyStr(n) @@ "Playlist Items" :> items

\* the playlist dicts drawn
PlaylistPool ==
    { PlaylistOf(n, its) : n \in {NameA, NameASlash, NameB}, its \in ItemLists }
    \cup
    { "Playlist Items" :> <<Item(1)>>,
      PlaylistOf(<<>>, <<Item(1)>>),
      "Name" :> PyStr(NameA),
      PlaylistOf(NameA, <<>>),
      PlaylistOf(NameB, <<Item(1)>>) @@ "Master" :> PyBool(TRUE),
      PlaylistOf(NameA, <<Item(2), Item(1)>>) @@ "Music" :> PyBool(TRUE),
      PlaylistOf(NameASlash, <<Item(1)>>) @@ "Master" :> PyBool(FALSE) @@ "Music" :> PyBool(FALSE) }

PlaylistLists == UNION { [1..n -> PlaylistPool] : n \in 0..MaxPlaylists }

Libraries ==
    { "Tracks" :> c @@ "Playlists" :> ps : c \in Catalogs, ps \in PlaylistLists }
    \cup { "Playlists" :> ps : ps \in PlaylistLists }
    \cup { "Tracks" :> c : c \in Catalogs }

XmlInputs ==
    { [kind |-> "missing"], [kind |-> "corrupt"] }
    \cup { [kind |-> "plist", library |-> l] : l \in Libraries }

TxtSuffix == <<".txt">>

\* output_dir before the run: absent, empty, or holding an older A.txt
InitialFs ==
    { [dir |-> FALSE, files |-> EmptyDict],
      [dir |-> TRUE, files |-> EmptyDict],
      [dir |-> TRUE, files |-> (NameA \o TxtSuffix) :> <<"o", "l", "d", "\n">>] }

NoFile == <<>>

----------------------------------------------------------------------------
(* extract_playlists_from_library *)

Say(m) == console' = Append(console, m)

\* f.write('\t'.join(header) + '\n')
HeaderLine == Join(<<"\t">>, [n \in 1..Len(header) |-> <<header[n]>>]) \o <<"\n">>

\* row_data: get_track_property for every key of xml_keys
RowData(td) == [n \in 1..Len(xml_keys) |-> get_track_property(td, xml_keys[n])]

\* '\t'.join(row_data) + '\n'
RowLine(td) ==
    LET row_data == RowData(td)
    IN  Join(<<"\t">>, [n \in 1..Len(row_data) |-> row_data[n].v]) \o <<"\n">>

\* playlist.get('Name')
PlaylistName(p) == Get(p, "Name", PyNone)

\* playlist.get('Playlist Items', [])
PlaylistItems(p) == Get(p, "Playlist Items", <<>>)

\* the second `continue` test looking at 'Master' alone
Skipped_noMusic(p) ==
    \/ ~Truthy(PlaylistName(p))
    \/ Len(PlaylistItems(p)) = 0
    \/ Truthy(Get(p, "Master", PyNone))

\* the two `continue` tests of the loop
Skipped(p) ==
    \/ ~Truthy(PlaylistName(p))
    \/ Len(PlaylistItems(p)) = 0
    \/ Truthy(Get(p, "Master", PyNone))
    \/ Truthy(Get(p, "Music", PyNone))

\* f"{sanitized_name}.txt"; os.path.join puts it in output_dir
OutputFile(p) == sanitize_filename(PlaylistName(p).v) \o TxtSuffix

\* str(item.get('Track ID'))
TrackIdOf(item) == Str(Get(item, "Track ID", PyNone))

\* `if track_data:` for track_data = tracks.get(track_id)
TrackDataTruthy(trs, id) == id \in DOMAIN trs /\ DOMAIN trs[id] # {}

\* open(output_filepath, 'a'): what the file holds is kept
OpenForWriting_append(fs, path) == IF path \in DOMAIN fs THEN fs ELSE (path :> <<>>) @@ fs

\* open(output_filepath, 'w'): the file is created or cut to nothing
OpenForWriting(fs, path) == (path :> <<>>) @@ fs

\* f.write(text)
WriteTo(fs, path, text) == [fs EXCEPT ![path] = @ \o text]

MainInit ==
    /\ xml \in XmlInputs
    /\ before \in InitialFs
    /\ dirExists = before.dir
    /\ files = before.files
    /\ console = <<>>
    /\ pc = "load"
    /\ library = EmptyDict
    /\ tracks = EmptyDict
    /\ playlists = <<>>
    /\ i = 0
    /\ j = 0
    /\ f = NoFile
    /\ playlist_count = 0

MainIdle ==
    /\ xml = [kind |-> "missing"]
    /\ before = [dir |-> FALSE, files |-> EmptyDict]
    /\ dirExists = FALSE
    /\ files = EmptyDict
    /\ console = <<>>
    /\ pc = "idle"
    /\ library = EmptyDict
    /\ tracks = EmptyDict
    /\ playlists = <<>>
    /\ i = 0
    /\ j = 0
    /\ f = NoFile
    /\ playlist_count = 0

\* os.makedirs moved ahead of the load
LoadNotFound_makedirs ==
    /\ pc = "load"
    /\ xml.kind = "missing"
    /\ dirExists' = TRUE
    /\ console' = console \o <<[msg |-> "loading"], [msg |-> "error_not_found"]>>
    /\ pc' = "done"
    /\ UNCHANGED <<xml, files, tracks, playlists, i, j, f, playlist_count, library, before>>
    /\ UNCHANGED <<fieldVars, sanVars>>

\* lines 52-58: open(xml_path) raises FileNotFoundError
LoadNotFound ==
    /\ pc = "load"
    /\ xml.kind = "missing"
    /\ console' = console \o <<[msg |-> "loading"], [msg |-> "error_not_found"]>>
    /\ pc' = "done"
    /\ UNCHANGED <<xml, dirExists, files, tracks, playlists, i, j, f, playlist_count,
                   library, before>>
    /\ UNCHANGED <<fieldVars, sanVars>>

\* lines 52-61: plistlib.load raises
LoadParseError ==
    /\ pc = "load"
    /\ xml.kind = "corrupt"
    /\ console' = console \o <<[msg |-> "loading"], [msg |-> "error_parse"]>>
    /\ pc' = "done"
    /\ UNCHANGED <<xml, dirExists, files, tracks, playlists, i, j, f, playlist_count,
                   library, before>>
    /\ UNCHANGED <<fieldVars, sanVars>>

\* lines 52-55: the library is loaded
LoadOk ==
    /\ pc = "load"
    /\ xml.kind = "plist"
    /\ library' = xml.library
    /\ Say([msg |-> "loading"])
    /\ pc' = "check"
    /\ UNCHANGED <<xml, dirExists, files, tracks, playlists, i, j, f, playlist_count, before>>
    /\ UNCHANGED <<fieldVars, sanVars>>

\* what lines 66-67 print
TracksWarning(trs) == IF DOMAIN trs = {} THEN <<[msg |-> "warn_no_tracks"]>> ELSE <<>>

\* os.makedirs moved ahead of the `if not playlists` test
NoPlaylists_makedirs ==
    /\ pc = "check"
    /\ tracks' = Get(library, "Tracks", EmptyDict)
    /\ playlists' = Get(library, "Playlists", <<>>)
    /\ Len(playlists') = 0
    /\ dirExists' = TRUE
    /\ console' = console \o TracksWarning(tracks') \o <<[msg |-> "warn_no_playlists"]>>
    /\ pc' = "done"
    /\ UNCHANGED <<xml, files, i, j, f, playlist_count, library, before>>
    /\ UNCHANGED <<fieldVars, sanVars>>

\* lines 63-70: no playlists, the function returns
NoPlaylists ==
    /\ pc = "check"
    /\ tracks' = Get(library, "Tracks", EmptyDict)
    /\ playlists' = Get(library, "Playlists", <<>>)
    /\ Len(playlists') = 0
    /\ console' = console \o TracksWarning(tracks') \o <<[msg |-> "warn_no_playlists"]>>
    /\ pc' = "done"
    /\ UNCHANGED <<xml, dirExists, files, i, j, f, playlist_count, library, before>>
    /\ UNCHANGED <<fieldVars, sanVars>>

\* lines 63-115: there are playlists, output_dir is made, the loop starts
Prepare ==
    /\ pc = "check"
    /\ tracks' = Get(library, "Tracks", EmptyDict)
    /\ playlists' = Get(library, "Playlists", <<>>)
    /\ Len(playlists') # 0
    /\ dirExists' = TRUE
    /\ console' = console \o TracksWarning(tracks') \o <<[msg |-> "saving"]>>
    /\ playlist_count' = 0
    /\ i' = 1
    /\ pc' = "loop"
    /\ UNCHANGED <<xml, files, j, f, library, before>>
    /\ UNCHANGED <<fieldVars, sanVars>>

\* lines 116-125: the playlist is passed over
SkipPlaylist ==
    /\ pc = "loop"
    /\ i <= Len(playlists)
    /\ Skipped(playlists[i])
    /\ i' = i + 1
    /\ UNCHANGED <<xml, dirExists, files, console, pc, tracks, playlists, j, f,
                   playlist_count, library, before>>
    /\ UNCHANGED <<fieldVars, sanVars>>

\* lines 116-134: the playlist's file is opened and the header written
OpenPlaylist ==
    /\ pc = "loop"
    /\ i <= Len(playlists)
    /\ ~Skipped(playlists[i])
    /\ f' = OutputFile(playlists[i])
    /\ Say([msg |-> "extracting", name |-> PlaylistName(playlists[i]).v,
            n |-> Len(PlaylistItems(playlists[i]))])
    /\ files' = WriteTo(OpenForWriting(files, f'), f', HeaderLine)
    /\ j' = 1
    /\ pc' = "write"
    /\ UNCHANGED <<xml, dirExists, tracks, playlists, i, playlist_count, library, before>>
    /\ UNCHANGED <<fieldVars, sanVars>>

\* lines 137-143: an item whose track data is truthy gets a row
WriteRow ==
    /\ pc = "write"
    /\ j <= Len(PlaylistItems(playlists[i]))
    /\ LET track_id == TrackIdOf(PlaylistItems(playlists[i])[j])
       IN  /\ TrackDataTruthy(tracks, track_id)
           /\ files' = WriteTo(files, f, RowLine(tracks[track_id]))
    /\ j' = j + 1
    /\ UNCHANGED <<xml, dirExists, console, pc, tracks, playlists, i, f, playlist_count,
                   library, before>>
    /\ UNCHANGED <<fieldVars, sanVars>>

\* lines 137-141: an item whose track data is not truthy gets nothing
SkipItem ==
    /\ pc = "write"
    /\ j <= Len(PlaylistItems(playlists[i]))
    /\ ~TrackDataTruthy(tracks, TrackIdOf(PlaylistItems(playlists[i])[j]))
    /\ j' = j + 1
    /\ UNCHANGED <<xml, dirExists, files, console, pc, tracks, playlists, i, f,
                   playlist_count, library, before>>
    /\ UNCHANGED <<fieldVars, sanVars>>

\* line 145, and the end of the with block: the file is closed
ClosePlaylist ==
    /\ pc = "write"
    /\ j > Len(PlaylistItems(playlists[i]))
    /\ f' = NoFile
    /\ playlist_count' = playlist_count + 1
    /\ i' = i + 1
    /\ pc' = "loop"
    /\ UNCHANGED <<xml, dirExists, files, console, tracks, playlists, j, library, before>>
    /\ UNCHANGED <<fieldVars, sanVars>>

\* line 147
Finish ==
    /\ pc = "loop"
    /\ i > Len(playlists)
    /\ Say([msg |-> "complete", n |-> playlist_count])
    /\ pc' = "done"
    /\ UNCHANGED <<xml, dirExists, files, tracks, playlists, i, j, f, playlist_count,
                   library, before>>
    /\ UNCHANGED <<fieldVars, sanVars>>

----------------------------------------------------------------------------
(* get_track_property called on its own. *)

\* the values stored under a key of a track record
FieldValues ==
    { PyInt(n) : n \in {-185000, -1500, -1000, -999, -1, 0, 1, 999, 1000, 1500, 1999, 185000} }
    \cup { PyBool(TRUE), PyBool(FALSE), PyNone }
    \cup { PyDate([day |-> 5, month |-> 11, year |-> 2019, hour |-> 9, minute |-> 30]),
           PyDate([day |-> 31, month |-> 12, year |-> 1999, hour |-> 23, minute |-> 59]) }
    \cup { PyStr(<<>>), PyStr(<<"S">>), PyStr(<<"a", "\t", "b">>) }
    \cup { PyOther(<<"1", ".", "5">>) }

\* what the Location strings drawn are put together from
Segments ==
    { FileScheme, UsersPrefix, <<"a">>, <<"/">>, <<"%", "2", "0">>, <<"%">>,
      <<"f", "i", "l", "e">>, <<"%", "3", "A", "/", "/">> }

RECURSIVE Flatten(_)
Flatten(ss) == IF ss = <<>> THEN <<>> ELSE Head(ss) \o Flatten(Tail(ss))

LocationStrings ==
    { Flatten(ss) : ss \in UNION { [1..n -> Segments] : n \in 0..MaxSegments } }

\* the calls drawn: every key with every value and with no value, and the
\* Location strings under the Location key and under another key
FieldCalls ==
    { [key |-> xml_keys[n], track_data |-> xml_keys[n] :> v] :
        n \in 1..Len(xml_keys), v \in FieldValues }
    \cup { [key |-> xml_keys[n], track_data |-> EmptyDict] : n \in 1..Len(xml_keys) }
    \cup { [key |-> k, track_data |-> k :> PyStr(l)] :
             k \in {"Location", "Comments"}, l \in LocationStrings }

FieldIdle == gpc = "idle" /\ track_data = EmptyDict /\ key = "" /\ result = PyNone

FieldInit ==
    /\ gpc = "call"
    /\ \E c \in FieldCalls : key = c.key /\ track_data = c.track_data
    /\ result = PyNone

\* lines 13-41
CallGetTrackProperty ==
    /\ gpc = "call"
    /\ result' = get_track_property(track_data, key)
    /\ gpc' = "returned"
    /\ UNCHANGED <<track_data, key, mainVars, sanVars>>

----------------------------------------------------------------------------
(* sanitize_filename called on its own, once and then on its own result. *)

NameChars == InvalidChars \cup {"a", "b", " ", "."}

Names == UNION { [1..n -> NameChars] : n \in 0..MaxNameLen }

SanIdle == spc = "idle" /\ name = <<>> /\ sanitized = <<>> /\ again = <<>>

SanInit == spc = "call" /\ name \in Names /\ sanitized = <<>> /\ again = <<>>

\* lines 7-11
CallSanitize ==
    /\ spc = "call"
    /\ sanitized' = sanitize_filename(name)
    /\ spc' = "once"
    /\ UNCHANGED <<name, again, mainVars, fieldVars>>

\* lines 7-11, on what the first call returned
CallSanitizeAgain ==
    /\ spc = "once"
    /\ again' = sanitize_filename(sanitized)
    /\ spc' = "twice"
    /\ UNCHANGED <<name, sanitized, mainVars, fieldVars>>

----------------------------------------------------------------------------

Init == MainInit /\ FieldIdle /\ SanIdle

Next ==
    \/ LoadNotFound
    \/ LoadParseError
    \/ LoadOk
    \/ NoPlaylists
    \/ Prepare
    \/ SkipPlaylist
    \/ OpenPlaylist
    \/ WriteRow
    \/ SkipItem
    \/ ClosePlaylist
    \/ Finish

Spec == Init /\ [][Next]_vars

FieldSpecInit == MainIdle /\ FieldInit /\ SanIdle

FieldNext == CallGetTrackProperty

FieldSpec == FieldSpecInit /\ [][FieldNext]_vars

SanSpecInit == MainIdle /\ FieldIdle /\ SanInit

SanNext ==
    \/ CallSanitize
    \/ CallSanitizeAgain

SanSpec == SanSpecInit /\ [][SanNext]_vars

----------------------------------------------------------------------------
(* What the claims speak of. *)

LastSaid == IF console = <<>> THEN "" ELSE console[Len(console)].msg

\* the run has ended, the load having succeeded and the loop having run
Completed == pc = "done" /\ LastSaid = "complete"

\* a flag of a playlist is set
FlagSet(p, k) == k \in DOMAIN p /\ p[k].t = "bool" /\ p[k].v

\* a playlist with a non-empty name, a non-empty item list and neither flag set
Exportable(p) ==
    /\ "Name" \in DOMAIN p /\ p["Name"].t = "str" /\ Len(p["Name"].v) > 0
    /\ "Playlist Items" \in DOMAIN p /\ Len(p["Playlist Items"]) > 0
    /\ ~FlagSet(p, "Master")
    /\ ~FlagSet(p, "Music")

\* the playlists the loop is through with
Processed == IF pc \in {"loop", "write"} THEN i - 1 ELSE Len(playlists)

\* the playlists the loop has come to
Reached == IF pc = "write" THEN i ELSE Processed

\* the rows the loop writes for a list of items, one after the other
RECURSIVE RowsWritten(_)
RowsWritten(items) ==
    IF items = <<>> THEN <<>>
    ELSE (IF TrackDataTruthy(tracks, TrackIdOf(Head(items)))
          THEN RowLine(tracks[TrackIdOf(Head(items))]) ELSE <<>>)
         \o RowsWritten(Tail(items))

\* one row for each item whose track id is a key of the catalog
RECURSIVE RowsOfFound(_)
RowsOfFound(items) ==
    IF items = <<>> THEN <<>>
    ELSE (IF TrackIdOf(Head(items)) \in DOMAIN tracks
          THEN RowLine(tracks[TrackIdOf(Head(items))]) ELSE <<>>)
         \o RowsOfFound(Tail(items))

\* the playlist whose file the loop has just closed
JustWritten == pc = "loop" /\ i > 1 /\ ~Skipped(playlists[i - 1])

----------------------------------------------------------------------------

\* C1: at every point of a run the counter equals the number of playlists
\* gone through that have a non-empty name, a non-empty item list and neither
\* the Master nor the Music flag set; the files of output_dir are those it
\* held before and those of such playlists, so no other playlist had a file
\* opened; and the count printed at the end is that number.
C1_CountIsExportable ==
    /\ playlist_count =
           Cardinality({k \in 1..Processed : Exportable(playlists[k])})
    /\ DOMAIN files =
           DOMAIN before.files
               \cup {OutputFile(playlists[k]) : k \in {m \in 1..Reached : Exportable(playlists[m])}}
    /\ Completed =>
           console[Len(console)].n =
               Cardinality({k \in 1..Len(playlists) : Exportable(playlists[k])})

C1_Witness ==
    /\ Completed
    /\ Len(playlists) = 2
    /\ playlist_count = 1
    /\ FlagSet(playlists[1], "Music")
    /\ Exportable(playlists[2])

\* C2: when the load fails, with the input missing or undecodable, output_dir
\* and its files are as they were before the run, in every state from the
\* start to the end of the run, and the run ends saying which failure it was.
C2_FailedLoadWritesNothing ==
    xml.kind \in {"missing", "corrupt"} /\ pc # "idle" =>
        /\ dirExists = before.dir
        /\ files = before.files
        /\ pc \in {"load", "done"}
        /\ pc = "done" =>
               LastSaid = (IF xml.kind = "missing" THEN "error_not_found" ELSE "error_parse")

C2_Witness ==
    /\ pc = "done"
    /\ xml.kind = "missing"
    /\ LastSaid = "error_not_found"
    /\ ~before.dir
    /\ ~dirExists

\* the run has ended on a library whose playlist list is empty
EndedWithoutPlaylists ==
    pc = "done" /\ xml.kind = "plist" /\ Len(Get(xml.library, "Playlists", <<>>)) = 0

\* C3, as stated: with a loaded library whose playlist list is empty the run
\* warns, returns with nothing written, and output_dir exists when it ends.
C3_AsStated ==
    EndedWithoutPlaylists =>
        /\ LastSaid = "warn_no_playlists"
        /\ playlist_count = 0
        /\ files = before.files
        /\ dirExists

\* C3, amended: with a loaded library whose playlist list is empty the run
\* warns, returns with nothing written, and output_dir is not created: it
\* exists at the end only if it existed before.
C3_NoPlaylistsNoDirectory ==
    EndedWithoutPlaylists =>
        /\ LastSaid = "warn_no_playlists"
        /\ playlist_count = 0
        /\ files = before.files
        /\ dirExists = before.dir

C3_Witness ==
    /\ EndedWithoutPlaylists
    /\ LastSaid = "warn_no_playlists"
    /\ ~before.dir
    /\ ~dirExists

\* C4: the file of an exported playlist is the header line followed by one
\* row for each item whose track id is a key of the catalog, in item order,
\* and nothing for the other items.
C4_RowForEveryFoundId ==
    JustWritten =>
        files[OutputFile(playlists[i - 1])] =
            HeaderLine \o RowsOfFound(PlaylistItems(playlists[i - 1]))

\* C5: when two exportable playlists have names that sanitize to the same
\* string, the later being the last of that name, then after the run there
\* is one file of that name and it holds the header and the rows of the
\* later playlist, and nothing else.
C5_LaterPlaylistWins ==
    Completed =>
        \A a, b \in 1..Len(playlists) :
            ( /\ a < b
              /\ Exportable(playlists[a])
              /\ Exportable(playlists[b])
              /\ sanitize_filename(playlists[a]["Name"].v) = sanitize_filename(playlists[b]["Name"].v)
              /\ \A c \in (b + 1)..Len(playlists) :
                     Exportable(playlists[c]) =>
                         sanitize_filename(playlists[c]["Name"].v)
                             # sanitize_filename(playlists[b]["Name"].v) )
            => LET file == sanitize_filename(playlists[b]["Name"].v) \o TxtSuffix
               IN  /\ Cardinality({n \in DOMAIN files : n = file}) = 1
                   /\ files[file] = HeaderLine \o RowsWritten(playlists[b]["Playlist Items"])

C5_Witness ==
    /\ Completed
    /\ Len(playlists) = 2
    /\ Exportable(playlists[1])
    /\ Exportable(playlists[2])
    /\ playlists[1]["Name"].v = NameA
    /\ playlists[2]["Name"].v = NameASlash
    /\ RowsWritten(playlists[1]["Playlist Items"]) # <<>>
    /\ RowsWritten(playlists[1]["Playlist Items"]) # RowsWritten(playlists[2]["Playlist Items"])
    /\ before.files # EmptyDict
    /\ files[NameA \o TxtSuffix] = HeaderLine \o RowsWritten(playlists[2]["Playlist Items"])

\* where the line that ends at position n of a text starts
LineStart(text, n) ==
    LET earlier == {m \in 1..(n - 1) : text[m] = "\n"}
    IN  IF earlier = {} THEN 1 ELSE 1 + CHOOSE m \in earlier : \A o \in earlier : o <= m

\* the number of tab-separated columns of the line that ends at position n
ColumnsOfLine(text, n) ==
    1 + Cardinality({m \in LineStart(text, n)..(n - 1) : text[m] = "\t"})

\* the number of items of a list that get a row
RECURSIVE NumRowsWritten(_)
NumRowsWritten(items) ==
    IF items = <<>> THEN 0
    ELSE (IF TrackDataTruthy(tracks, TrackIdOf(Head(items))) THEN 1 ELSE 0)
         + NumRowsWritten(Tail(items))

\* C10: in the file of an exported playlist every line has as many
\* tab-separated columns as header_map has entries, the file ends with a
\* newline, and there is one line for the header and one for each row written.
C10_EveryLineHasAllColumns ==
    JustWritten =>
        LET text == files[OutputFile(playlists[i - 1])]
            ends == {n \in 1..Len(text) : text[n] = "\n"}
        IN  /\ Len(text) > 0
            /\ text[Len(text)] = "\n"
            /\ \A n \in ends : ColumnsOfLine(text, n) = Len(header)
            /\ Cardinality(ends) = 1 + NumRowsWritten(PlaylistItems(playlists[i - 1]))

----------------------------------------------------------------------------

\* get_track_property has returned
Returned == gpc = "returned"

\* the value stored under the key, when there is one
Stored == track_data[key]

HasStored(type) == key \in DOMAIN track_data /\ Stored.t = type

DigitValue(c) == (CHOOSE n \in 1..Len(Digits) : Digits[n] = c) - 1

IsDigit(c) == \E n \in 1..Len(Digits) : Digits[n] = c

\* a base-10 integer: digits, after a minus sign when negative, with no
\* leading zero, no fractional part and no "-0"
IsDecimal(s) ==
    LET d == IF s # <<>> /\ s[1] = "-" THEN Tail(s) ELSE s
    IN  /\ d # <<>>
        /\ \A n \in 1..Len(d) : IsDigit(d[n])
        /\ Len(d) > 1 => d[1] # "0"
        /\ s[1] = "-" => d # <<"0">>

RECURSIVE DigitsValue(_)
DigitsValue(d) ==
    IF d = <<>> THEN 0
    ELSE 10 * DigitsValue(SubSeq(d, 1, Len(d) - 1)) + DigitValue(d[Len(d)])

\* the integer a base-10 integer stands for
DecimalValue(s) == IF s[1] = "-" THEN -DigitsValue(Tail(s)) ELSE DigitsValue(s)

\* value / 1000 with the fractional part discarded
Truncated(v) == IF v >= 0 THEN v \div 1000 ELSE -((-v) \div 1000)

\* C6, as stated: an integer stored under Total Time, of either sign, is
\* rendered as the base-10 integer that is value / 1000 truncated.
C6_AsStated ==
    Returned /\ key = "Total Time" /\ HasStored("int") =>
        /\ result.t = "str"
        /\ IsDecimal(result.v)
        /\ DecimalValue(result.v) = Truncated(Stored.v)

\* C6, amended: an integer stored under Total Time, of either sign, is
\* rendered as the base-10 integer that is the floor of value / 1000 (the
\* largest q with 1000 * q <= value); for a value that is not negative that
\* is value / 1000 truncated, and 185000 is rendered as "185".
C6_FloorOfThousandth ==
    Returned /\ key = "Total Time" /\ HasStored("int") =>
        /\ result.t = "str"
        /\ IsDecimal(result.v)
        /\ 1000 * DecimalValue(result.v) <= Stored.v
        /\ Stored.v < 1000 * (DecimalValue(result.v) + 1)
        /\ Stored.v >= 0 => DecimalValue(result.v) = Truncated(Stored.v)
        /\ Stored.v = 185000 => result.v = <<"1", "8", "5">>

C6_Witness ==
    /\ Returned
    /\ key = "Total Time"
    /\ HasStored("int")
    /\ Stored.v = -1500
    /\ result = PyStr(<<"-", "2">>)

\* C7: a str stored under Location is rendered as its percent-decoded form
\* with a leading file:// taken off and nothing else removed, with
\* Macintosh HD put in front when what is left begins with /Users/.
C7_OnlyThePrefixIsStripped ==
    Returned /\ key = "Location" /\ HasStored("str") =>
        LET decoded == Unquote(Stored.v)
            stripped ==
                IF StartsWith(decoded, FileScheme)
                THEN SubSeq(decoded, Len(FileScheme) + 1, Len(decoded))
                ELSE decoded
        IN  result =
                PyStr(IF StartsWith(stripped, UsersPrefix)
                      THEN MacintoshHD \o stripped ELSE stripped)

\* C8: get_track_property returns a str whatever the key and whatever is
\* stored under it, and the empty str when nothing, or None, is stored.
C8_AlwaysAString ==
    Returned =>
        /\ result.t = "str"
        /\ key \notin DOMAIN track_data \/ Stored.t = "none" => result.v = <<>>

C8_Witness ==
    /\ Returned
    /\ key = "Location"
    /\ HasStored("int")
    /\ result = PyStr(<<"9", "9", "9">>)

\* the characters sanitize_filename is to remove: \ / * ? : " < > |
Forbidden == {"\\", "/", "*", "?", ":", "\"", "<", ">", "|"}

NotForbidden(c) == c \notin Forbidden

\* C9: what sanitize_filename returns holds none of \ / * ? : " < > | and is
\* its argument with exactly those characters left out, the others in their
\* order; applied to its own result it returns that result.
C9_SanitizeIdempotent ==
    /\ spc \in {"once", "twice"} =>
           /\ \A n \in 1..Len(sanitized) : sanitized[n] \notin Forbidden
           /\ sanitized = SelectSeq(name, NotForbidden)
    /\ spc = "twice" => again = sanitized

C9_Witness ==
    /\ spc = "twice"
    /\ name = <<"/", "a", "/">>
    /\ sanitized = <<"a">>
    /\ again = <<"a">>

====
